---- MODULE Spec2Model ----
(***************************************************************************)
(* Model of scart_rgb.c: the packed pixel writer draw_pixel, the three     *)
(* DMA control blocks, the three DMA channels that stream them to the RGB  *)
(* PIO state machine, and the start-up sequence of main.                   *)
(***************************************************************************)
EXTENDS Integers, Sequences, FiniteSets, TLC

\* ------------------------------------------------------------------------
\* Geometry of the program (scart_rgb.c:39-43)
SCAN_LINES == 304
BORDER_TOP_LINES == 42
BORDER_BOTTOM_LINES == 22
RES_X == 320

\* the value the counters of the example are compared with (lines 261, 269)
\* and the number of colors it cycles through
BarSize == 40
NumColors == 8

ProgramGeometry ==
    [res_x |-> RES_X, scan_lines |-> SCAN_LINES,
     top |-> BORDER_TOP_LINES, bottom |-> BORDER_BOTTOM_LINES, bar |-> BarSize]

\* Geometry the state machine is explored with: the same macros, fewer lines.
\* 3 border lines above 2 active lines, 1 border line below.
SmallHalfWidth == 2

SmallGeometry ==
    [res_x |-> 2 * SmallHalfWidth, scan_lines |-> 3 + 2 + 1, top |-> 3, bottom |-> 1]

\* Geometry the example is explored with: as in the program, a row holds
\* NumColors bars and the buffer holds 6 bands of rows.
ExampleBar == 2

ExampleGeometry ==
    [res_x |-> NumColors * ExampleBar, scan_lines |-> 3 + 6 * ExampleBar + 1,
     top |-> 3, bottom |-> 1, bar |-> ExampleBar]

\* Bounds of the exploration
MaxWrites == 2      \* draw_pixel calls in PixelSpec
MaxCycles == 2      \* passes through the chain that are observed
MaxFreeChannels == 4 \* DMA channels of the engine

\* ------------------------------------------------------------------------
\* The macros of scart_rgb.c:44-48 over a geometry g
RES_Y(g) == g.scan_lines - g.top - g.bottom
LINE_COUNT(g) == g.res_x \div 2
FRAMEBUFFER_SIZE(g) == LINE_COUNT(g) * RES_Y(g)

\* ------------------------------------------------------------------------
\* C integer arithmetic
\* A uint32_t is kept as two 16-bit halves: value = hi * 2^16 + lo.
HALF == 65536
U32(hi, lo) == [hi |-> hi, lo |-> lo]
\* conversion of an int argument to uint32_t at a call
ToUint32(n) == U32((n \div HALF) % HALF, n % HALF)
\* x > k and x < 0 on a uint32_t x, for an int constant 0 <= k < 2^16
U32Gt(x, k) == x.hi > 0 \/ x.lo > k
U32LtZero(x) == FALSE
\* (a * y + x) mod 2^32, for an int constant 0 <= a < 2^15
U32MulAdd(a, y, x) ==
    LET low == a * y.lo + x.lo
        high == a * y.hi + x.hi + (low \div HALF)
    IN  U32(high % HALF, low % HALF)
\* conversion of a uint32_t to int
ToInt(u) == IF u.hi >= HALF \div 2 THEN (u.hi - HALF) * HALF + u.lo
            ELSE u.hi * HALF + u.lo
ToUint8(n) == n % 256

Bit(v, i) == (v \div (2 ^ i)) % 2

RECURSIVE OrBits(_, _, _)
OrBits(a, b, i) ==
    IF i < 0 THEN 0
    ELSE (IF Bit(a, i) = 1 \/ Bit(b, i) = 1 THEN 2 ^ i ELSE 0) + OrBits(a, b, i - 1)

\* a | b on bytes
BitOr(a, b) == OrBits(a, b, 7)

\* ------------------------------------------------------------------------
\* draw_pixel (scart_rgb.c:77-105)

\* x passed on without the range checks
ClampXUnchecked(g, x) == x

\* the range checks of lines 79-89, on uint32_t x and y
ClampX(g, x) ==
    LET k_max_x == g.res_x - 1
        x1 == IF U32Gt(x, k_max_x) THEN ToUint32(k_max_x) ELSE x
    IN  IF U32LtZero(x1) THEN ToUint32(0) ELSE x1

\* y passed on without the range checks
ClampYUnchecked(g, y) == y

ClampY(g, y) ==
    LET k_max_y == RES_Y(g) - 1
        y1 == IF U32LtZero(y) THEN ToUint32(0) ELSE y
    IN  IF U32Gt(y1, k_max_y) THEN ToUint32(k_max_y) ELSE y1

\* the coordinates exchanged
PixelIndexSwapped(g, x, y) == ToInt(U32MulAdd(g.res_x, ClampX(g, x), ClampY(g, y)))

\* int pixel = ((RES_X * y) + x);   (line 92)
PixelIndex(g, x, y) == ToInt(U32MulAdd(g.res_x, ClampY(g, y), ClampX(g, x)))

\* the shift of line 99
OddShift == 3

\* the color put into both pixels of the byte
PixelMaskBoth(pixel, color) == color * (2 ^ OddShift) + color

\* the odd pixel packed as a nibble
PixelMaskNibble(pixel, color) ==
    IF pixel % 2 = 1 THEN color * 16 ELSE color

\* the value OR-ed into the byte (lines 97-104)
PixelMask(pixel, color) ==
    IF pixel % 2 = 1 THEN color * (2 ^ OddShift) ELSE color

\* the value added to the byte instead of merged
draw_pixel_add(g, buf, x, y, color) ==
    LET pixel == PixelIndex(g, x, y)
        byte == pixel \div 2
    IN  [buf EXCEPT ![byte] = ToUint8(@ + PixelMask(pixel, color))]

\* the byte assigned instead of merged
draw_pixel_replace(g, buf, x, y, color) ==
    LET pixel == PixelIndex(g, x, y)
        byte == pixel \div 2
    IN  [buf EXCEPT ![byte] = ToUint8(PixelMask(pixel, color))]

\* the store after draw_pixel(x, y, color)
draw_pixel(g, buf, x, y, color) ==
    LET pixel == PixelIndex(g, x, y)
        byte == pixel \div 2
    IN  [buf EXCEPT ![byte] = BitOr(@, ToUint8(PixelMask(pixel, color)))]

\* ------------------------------------------------------------------------
\* State
VARIABLES
    geo,                \* the geometry the macros are evaluated with
    s_framebuffer,      \* line 69: byte offset -> byte
    pc,                 \* position of main
    pio_space,          \* programs that still fit in the PIO instruction memory
    programs,           \* PIO programs loaded (lines 136-137)
    sm_init,            \* state machines configured (lines 147-148)
    sm_fifo_put,        \* initial counter words put in the TX FIFOs (lines 229-230)
    sm_enabled,         \* state machines running: [csync, rgb]
    dma_unused,         \* DMA channels not claimed yet
    channel_0, channel_1, channel_2,   \* lines 160-162, -1 before the claim
    control_blocks,     \* lines 154-158
    control_block_ptr,  \* line 204
    dma,                \* registers of every DMA channel
    dreq,               \* the RGB state machine's TX FIFO has room
    fault,              \* a transfer touched memory outside the program's objects
    writes,             \* draw_pixel calls made
    written,            \* pixel index -> the colors passed for it, oldest first
    loop,               \* the example's variables: index, xcounter, ycounter, y
    observe,            \* the sink's stream and the counters are recorded
    log,                \* elements written to the RGB TX FIFO, oldest first
    passes,             \* completions of the third control block
    restarts            \* transfers made by the restart channel

vars == <<geo, s_framebuffer, pc, pio_space, programs, sm_init, sm_fifo_put,
          sm_enabled, dma_unused, channel_0, channel_1, channel_2,
          control_blocks, control_block_ptr, dma, dreq, fault, writes,
          written, loop, observe, log, passes, restarts>>

appVars == <<s_framebuffer, writes, written, loop>>
mainVars == <<pc, pio_space, programs, sm_init, sm_fifo_put, sm_enabled,
              dma_unused, channel_0, channel_1, channel_2, control_blocks,
              control_block_ptr>>
hwVars == <<dma, dreq, fault, log, passes, restarts>>

\* ------------------------------------------------------------------------
\* Memory the DMA sees
s_border_color == 0
Addr(base, idx, off) == [base |-> base, idx |-> idx, off |-> off]
NullAddr == Addr("null", 0, 0)
BorderAddr == Addr("s_border_color", 0, 0)         \* &s_border_color
FramebufferAddr == Addr("s_framebuffer", 0, 0)     \* s_framebuffer
ControlBlocksAddr == Addr("control_blocks", 0, 0)  \* control_blocks
ControlBlockPtrAddr == Addr("control_block_ptr", 0, 0)
TxfAddr(sm) == Addr("txf", sm, 0)                  \* &pio->txf[sm]
\* the loader writing over the control blocks instead of channel ch's registers
Al1OverBlocks(ch) == Addr("control_blocks", ch, 0)
Al1CtrlAddr(ch) == Addr("al1", ch, 0)              \* &dma_hw->ch[ch].al1_ctrl
\* the read address register that does not trigger
ReadAddrNoTrig(ch) == Addr("read_addr", ch, 0)
Al3ReadAddrTrig(ch) == Addr("al3_read_addr_trig", ch, 0)

csync_sm == 0
rgb_sm == 1

\* fields of struct control_block_t in memory order (lines 107-113)
BlockWords == 4
NumBlocks == 3

\* what a read outside every object may return
Undefined == {0, 255}

\* DMA channel control word
ZeroCtrl ==
    [en |-> FALSE, size |-> 8, incr_read |-> FALSE, incr_write |-> FALSE,
     ring |-> 0, treq |-> "zero", chain_to |-> 0, irq_quiet |-> FALSE]

\* dma_channel_get_default_config(channel)
DefaultConfig(channel) ==
    [en |-> TRUE, size |-> 32, incr_read |-> TRUE, incr_write |-> FALSE,
     ring |-> 0, treq |-> "unpaced", chain_to |-> channel, irq_quiet |-> FALSE]

ResetChannel ==
    [ctrl |-> ZeroCtrl, read_addr |-> NullAddr, write_addr |-> NullAddr,
     count |-> 0, remaining |-> 0, busy |-> FALSE, blk |-> -1]

\* ------------------------------------------------------------------------
\* main: start-up (lines 115-239)

Channels == 0 .. (MaxFreeChannels - 1)

\* the programs main loads (lines 136-137)
NumPrograms == 2

Min(S) == CHOOSE m \in S : \A n \in S : m <= n

\* pio_add_program: the program is loaded, or the call panics
AddProgram(at, name, next) ==
    /\ pc = at
    /\ IF pio_space > 0
       THEN /\ pio_space' = pio_space - 1
            /\ programs' = programs \cup {name}
            /\ pc' = next
       ELSE /\ pc' = "panic"
            /\ UNCHANGED <<pio_space, programs>>
    /\ UNCHANGED <<geo, sm_init, sm_fifo_put, sm_enabled, dma_unused,
                   channel_0, channel_1, channel_2, control_blocks,
                   control_block_ptr, observe>>
    /\ UNCHANGED appVars
    /\ UNCHANGED hwVars

\* line 136
AddCsyncProgram == AddProgram("add_csync", "csync", "add_rgb")
\* line 137
AddRgbProgram == AddProgram("add_rgb", "rgb", "program_init")

\* lines 147-148
ProgramInit ==
    /\ pc = "program_init"
    /\ sm_init' = {csync_sm, rgb_sm}
    /\ pc' = "control_blocks"
    /\ UNCHANGED <<geo, pio_space, programs, sm_fifo_put, sm_enabled, dma_unused,
                   channel_0, channel_1, channel_2, control_blocks,
                   control_block_ptr, observe>>
    /\ UNCHANGED appVars
    /\ UNCHANGED hwVars

\* the active count in pixels instead of bytes
InitialControlBlocksInPixels(g) ==
    [i \in 0 .. (NumBlocks - 1) |->
        CASE i = 0 -> [ctrl |-> ZeroCtrl, read_addr |-> BorderAddr,
                       write_addr |-> TxfAddr(rgb_sm),
                       count |-> LINE_COUNT(g) * g.top]
          [] i = 1 -> [ctrl |-> ZeroCtrl, read_addr |-> FramebufferAddr,
                       write_addr |-> TxfAddr(rgb_sm),
                       count |-> g.res_x * RES_Y(g)]
          [] i = 2 -> [ctrl |-> ZeroCtrl, read_addr |-> BorderAddr,
                       write_addr |-> TxfAddr(rgb_sm),
                       count |-> LINE_COUNT(g) * g.bottom]]

\* the initializer of lines 154-158
InitialControlBlocks(g) ==
    [i \in 0 .. (NumBlocks - 1) |->
        CASE i = 0 -> [ctrl |-> ZeroCtrl, read_addr |-> BorderAddr,
                       write_addr |-> TxfAddr(rgb_sm),
                       count |-> LINE_COUNT(g) * g.top]
          [] i = 1 -> [ctrl |-> ZeroCtrl, read_addr |-> FramebufferAddr,
                       write_addr |-> TxfAddr(rgb_sm),
                       count |-> LINE_COUNT(g) * RES_Y(g)]
          [] i = 2 -> [ctrl |-> ZeroCtrl, read_addr |-> BorderAddr,
                       write_addr |-> TxfAddr(rgb_sm),
                       count |-> LINE_COUNT(g) * g.bottom]]

BuildControlBlocks ==
    /\ pc = "control_blocks"
    /\ control_blocks' = InitialControlBlocks(geo)
    /\ pc' = "claim_0"
    /\ UNCHANGED <<geo, pio_space, programs, sm_init, sm_fifo_put, sm_enabled,
                   dma_unused, channel_0, channel_1, channel_2,
                   control_block_ptr, observe>>
    /\ UNCHANGED appVars
    /\ UNCHANGED hwVars

\* dma_claim_unused_channel(true): the lowest unused channel, or the call panics
ClaimChannel0 ==
    /\ pc = "claim_0"
    /\ IF dma_unused # {}
       THEN /\ channel_0' = Min(dma_unused)
            /\ dma_unused' = dma_unused \ {Min(dma_unused)}
            /\ pc' = "claim_1"
       ELSE /\ pc' = "panic"
            /\ UNCHANGED <<channel_0, dma_unused>>
    /\ UNCHANGED <<geo, pio_space, programs, sm_init, sm_fifo_put, sm_enabled,
                   channel_1, channel_2, control_blocks, control_block_ptr, observe>>
    /\ UNCHANGED appVars
    /\ UNCHANGED hwVars

ClaimChannel1 ==
    /\ pc = "claim_1"
    /\ IF dma_unused # {}
       THEN /\ channel_1' = Min(dma_unused)
            /\ dma_unused' = dma_unused \ {Min(dma_unused)}
            /\ pc' = "claim_2"
       ELSE /\ pc' = "panic"
            /\ UNCHANGED <<channel_1, dma_unused>>
    /\ UNCHANGED <<geo, pio_space, programs, sm_init, sm_fifo_put, sm_enabled,
                   channel_0, channel_2, control_blocks, control_block_ptr, observe>>
    /\ UNCHANGED appVars
    /\ UNCHANGED hwVars

\* the claim not required: no channel, no panic
ClaimChannel2NotRequired ==
    /\ pc = "claim_2"
    /\ IF dma_unused # {}
       THEN /\ channel_2' = Min(dma_unused)
            /\ dma_unused' = dma_unused \ {Min(dma_unused)}
       ELSE UNCHANGED <<channel_2, dma_unused>>
    /\ pc' = "config_0"
    /\ UNCHANGED <<geo, pio_space, programs, sm_init, sm_fifo_put, sm_enabled,
                   channel_0, channel_1, control_blocks, control_block_ptr, observe>>
    /\ UNCHANGED appVars
    /\ UNCHANGED hwVars

ClaimChannel2 ==
    /\ pc = "claim_2"
    /\ IF dma_unused # {}
       THEN /\ channel_2' = Min(dma_unused)
            /\ dma_unused' = dma_unused \ {Min(dma_unused)}
            /\ pc' = "config_0"
       ELSE /\ pc' = "panic"
            /\ UNCHANGED <<channel_2, dma_unused>>
    /\ UNCHANGED <<geo, pio_space, programs, sm_init, sm_fifo_put, sm_enabled,
                   channel_0, channel_1, control_blocks, control_block_ptr, observe>>
    /\ UNCHANGED appVars
    /\ UNCHANGED hwVars

\* the pacing of line 170 left out
PixelCtrlUnpaced(ch0, ch1) ==
    [DefaultConfig(ch0) EXCEPT !.size = 8, !.incr_read = TRUE, !.incr_write = FALSE,
                               !.irq_quiet = TRUE, !.chain_to = ch1]

\* the three control words built in lines 166-183
PixelCtrl(ch0, ch1) ==
    [DefaultConfig(ch0) EXCEPT !.size = 8, !.incr_read = TRUE, !.incr_write = FALSE,
                               !.treq = "pio_tx", !.irq_quiet = TRUE,
                               !.chain_to = ch1]
\* line 178 left out
BorderCtrlIncrementing(ch0, ch1) == PixelCtrl(ch0, ch1)
BorderCtrl(ch0, ch1) == [PixelCtrl(ch0, ch1) EXCEPT !.incr_read = FALSE]
\* line 182 left out
LastCtrlChainsToLoader(ch0, ch1, ch2) == BorderCtrl(ch0, ch1)
LastCtrl(ch0, ch1, ch2) == [BorderCtrl(ch0, ch1) EXCEPT !.chain_to = ch2]

\* lines 164-184
ConfigureControlBlocks ==
    /\ pc = "config_0"
    /\ control_blocks' =
          [control_blocks EXCEPT
              ![1].ctrl = PixelCtrl(channel_0, channel_1),
              ![0].ctrl = BorderCtrl(channel_0, channel_1),
              ![2].ctrl = LastCtrl(channel_0, channel_1, channel_2)]
    /\ pc' = "config_1"
    /\ UNCHANGED <<geo, pio_space, programs, sm_init, sm_fifo_put, sm_enabled,
                   dma_unused, channel_0, channel_1, channel_2,
                   control_block_ptr, observe>>
    /\ UNCHANGED appVars
    /\ UNCHANGED hwVars

\* the loader's write address not wrapped at the 16-byte boundary
LoaderCtrlNoRing(ch1) ==
    [DefaultConfig(ch1) EXCEPT !.size = 32, !.incr_read = TRUE, !.incr_write = TRUE,
                               !.ring = 0, !.irq_quiet = TRUE]

\* the control word of lines 188-193
LoaderCtrl(ch1) ==
    [DefaultConfig(ch1) EXCEPT !.size = 32, !.incr_read = TRUE, !.incr_write = TRUE,
                               !.ring = 4, !.irq_quiet = TRUE]

\* dma_channel_configure(channel, cfg, write_addr, read_addr, count, false)
Configured(cfg, write_addr, read_addr, count) ==
    [ctrl |-> cfg, read_addr |-> read_addr, write_addr |-> write_addr,
     count |-> count, remaining |-> 0, busy |-> FALSE, blk |-> -1]

\* lines 186-202
ConfigureChannel1 ==
    /\ pc = "config_1"
    /\ dma' = [dma EXCEPT ![channel_1] =
                  Configured(LoaderCtrl(channel_1), Al1CtrlAddr(channel_0),
                             ControlBlocksAddr, BlockWords)]
    /\ pc' = "config_2"
    /\ UNCHANGED <<geo, pio_space, programs, sm_init, sm_fifo_put, sm_enabled,
                   dma_unused, channel_0, channel_1, channel_2, control_blocks,
                   control_block_ptr, observe>>
    /\ UNCHANGED appVars
    /\ UNCHANGED <<dreq, fault, log, passes, restarts>>

\* the control word of lines 208-212
RestartCtrl(ch2) ==
    [DefaultConfig(ch2) EXCEPT !.size = 32, !.incr_read = FALSE,
                               !.incr_write = FALSE, !.irq_quiet = TRUE]

\* lines 204-221
ConfigureChannel2 ==
    /\ pc = "config_2"
    /\ control_block_ptr' = ControlBlocksAddr
    /\ dma' = [dma EXCEPT ![channel_2] =
                  Configured(RestartCtrl(channel_2), Al3ReadAddrTrig(channel_1),
                             ControlBlockPtrAddr, 1)]
    /\ pc' = "put"
    /\ UNCHANGED <<geo, pio_space, programs, sm_init, sm_fifo_put, sm_enabled,
                   dma_unused, channel_0, channel_1, channel_2, control_blocks,
                   observe>>
    /\ UNCHANGED appVars
    /\ UNCHANGED <<dreq, fault, log, passes, restarts>>

\* lines 229-230
PutCounters ==
    /\ pc = "put"
    /\ sm_fifo_put' = {csync_sm, rgb_sm}
    /\ pc' = "enable_sm"
    /\ UNCHANGED <<geo, pio_space, programs, sm_init, sm_enabled, dma_unused,
                   channel_0, channel_1, channel_2, control_blocks,
                   control_block_ptr, observe>>
    /\ UNCHANGED appVars
    /\ UNCHANGED hwVars

\* only the csync state machine in the mask
EnableMaskCsyncOnly == {csync_sm}

\* the mask of line 236
EnableMask == {csync_sm, rgb_sm}

\* line 236: pio_enable_sm_mask_in_sync
EnableStateMachines ==
    /\ pc = "enable_sm"
    /\ sm_enabled' = sm_enabled \cup EnableMask
    /\ pc' = "start_dma"
    /\ UNCHANGED <<geo, pio_space, programs, sm_init, sm_fifo_put, dma_unused,
                   channel_0, channel_1, channel_2, control_blocks,
                   control_block_ptr, observe>>
    /\ UNCHANGED appVars
    /\ UNCHANGED hwVars

\* a trigger of channel c: the transfer count is reloaded and the channel runs
Trigger(d, c) ==
    IF d[c].busy \/ ~d[c].ctrl.en THEN d
    ELSE [d EXCEPT ![c].busy = TRUE, ![c].remaining = d[c].count]

\* a trigger of every channel of a mask
RECURSIVE TriggerMask(_, _)
TriggerMask(d, mask) ==
    IF mask = {} THEN d
    ELSE LET c == CHOOSE m \in mask : TRUE
         IN  TriggerMask(Trigger(d, c), mask \ {c})

\* the restart channel started together with the loader
StartMaskWithRestart == {channel_1, channel_2}

\* the mask of line 239
StartMask == {channel_1}

\* line 239: dma_start_channel_mask
StartDma ==
    /\ pc = "start_dma"
    /\ dma' = TriggerMask(dma, StartMask)
    /\ pc' = "app"
    /\ UNCHANGED <<geo, pio_space, programs, sm_init, sm_fifo_put, sm_enabled,
                   dma_unused, channel_0, channel_1, channel_2, control_blocks,
                   control_block_ptr, observe>>
    /\ UNCHANGED appVars
    /\ UNCHANGED <<dreq, fault, log, passes, restarts>>

\* ------------------------------------------------------------------------
\* The DMA engine

\* word f of a control block, in the order of struct control_block_t
BlockWord(b, f) ==
    CASE f = 0 -> b.ctrl
      [] f = 1 -> b.read_addr
      [] f = 2 -> b.write_addr
      [] f = 3 -> b.count

ZeroBlock ==
    [ctrl |-> ZeroCtrl, read_addr |-> NullAddr, write_addr |-> NullAddr, count |-> 0]

\* the address is inside the object it is based on
InBounds(a) ==
    CASE a.base = "s_border_color" -> a.off = 0
      [] a.base = "s_framebuffer" -> a.off \in DOMAIN s_framebuffer
      [] a.base = "control_blocks" -> a.off \in 0 .. (NumBlocks * BlockWords - 1)
      [] a.base = "control_block_ptr" -> a.off = 0
      [] a.base = "txf" -> a.off = 0
      [] a.base = "al1" -> a.off \in 0 .. (BlockWords - 1)
      [] a.base = "al3_read_addr_trig" -> a.off = 0
      [] OTHER -> FALSE

\* a read of the frame buffer that returns a pattern unrelated to the store
ReadValuesTorn(a) ==
    CASE a.base = "s_border_color" /\ InBounds(a) -> {s_border_color}
      [] a.base = "control_blocks" /\ InBounds(a) ->
            {BlockWord(control_blocks[a.off \div BlockWords], a.off % BlockWords)}
      [] a.base = "control_blocks" /\ ~InBounds(a) ->
            {BlockWord(ZeroBlock, a.off % BlockWords)}
      [] a.base = "control_block_ptr" /\ InBounds(a) -> {control_block_ptr}
      [] OTHER -> Undefined

\* the values a read of address a may return
ReadValues(a) ==
    CASE a.base = "s_border_color" /\ InBounds(a) -> {s_border_color}
      [] a.base = "s_framebuffer" /\ InBounds(a) -> {s_framebuffer[a.off]}
      [] a.base = "control_blocks" /\ InBounds(a) ->
            {BlockWord(control_blocks[a.off \div BlockWords], a.off % BlockWords)}
      [] a.base = "control_blocks" /\ ~InBounds(a) ->
            {BlockWord(ZeroBlock, a.off % BlockWords)}
      [] a.base = "control_block_ptr" /\ InBounds(a) -> {control_block_ptr}
      [] OTHER -> Undefined

\* the address after one transfer: incremented, wrapped inside the ring
NextAddr(a, incr, ring, size) ==
    IF ~incr THEN a
    ELSE IF ring > 0
         THEN [a EXCEPT !.off = (a.off + 1) % ((2 ^ ring) \div (size \div 8))]
         ELSE [a EXCEPT !.off = a.off + 1]

\* the registers after value v, read from address ra, is written to address wa
WriteRegs(d, wa, ra, v) ==
    CASE wa.base = "al1" /\ wa.off = 0 -> [d EXCEPT ![wa.idx].ctrl = v]
      [] wa.base = "al1" /\ wa.off = 1 -> [d EXCEPT ![wa.idx].read_addr = v]
      [] wa.base = "al1" /\ wa.off = 2 -> [d EXCEPT ![wa.idx].write_addr = v]
      [] wa.base = "al1" /\ wa.off = 3 ->
            Trigger([d EXCEPT ![wa.idx].count = v,
                              ![wa.idx].blk = ra.off \div BlockWords], wa.idx)
      [] wa.base = "al3_read_addr_trig" ->
            Trigger([d EXCEPT ![wa.idx].read_addr = v], wa.idx)
      [] OTHER -> d

\* the channel a completed channel c triggers, if any
ChainTriggered(d, c, ctrl) ==
    IF ctrl.chain_to # c /\ ctrl.chain_to \in DOMAIN d THEN Trigger(d, ctrl.chain_to) ELSE d

ToSink(wa) == wa.base = "txf" /\ wa.idx = rgb_sm

LogEntry(r, v) ==
    [blk |-> r.blk, base |-> r.read_addr.base, off |-> r.read_addr.off, val |-> v]

\* channel c moves one element
DmaTransfer(c) ==
    LET r == dma[c]
        done == r.remaining = 1
        moved == [dma EXCEPT
                     ![c].read_addr = NextAddr(@, r.ctrl.incr_read, 0, r.ctrl.size),
                     ![c].write_addr = NextAddr(@, r.ctrl.incr_write, r.ctrl.ring, r.ctrl.size),
                     ![c].remaining = @ - 1,
                     ![c].busy = ~done]
    IN  /\ r.busy
        /\ r.ctrl.en
        /\ r.remaining > 0
        /\ r.ctrl.treq = "pio_tx" => dreq
        /\ (observe /\ ToSink(r.write_addr)) => passes < MaxCycles
        /\ \E v \in ReadValues(r.read_addr) :
              /\ dma' = IF done
                        THEN ChainTriggered(WriteRegs(moved, r.write_addr, r.read_addr, v), c, r.ctrl)
                        ELSE WriteRegs(moved, r.write_addr, r.read_addr, v)
              /\ log' = IF observe /\ ToSink(r.write_addr)
                        THEN Append(log, LogEntry(r, v)) ELSE log
        /\ fault' = (fault \/ ~InBounds(r.read_addr) \/ ~InBounds(r.write_addr))
        /\ passes' = IF observe /\ c = channel_0 /\ done /\ r.blk = NumBlocks - 1
                     THEN passes + 1 ELSE passes
        /\ restarts' = IF observe /\ c = channel_2 THEN restarts + 1 ELSE restarts
        /\ IF ToSink(r.write_addr) THEN dreq' \in BOOLEAN ELSE dreq' = dreq
        /\ UNCHANGED <<geo, observe>>
        /\ UNCHANGED appVars
        /\ UNCHANGED mainVars

Dma == \E c \in Channels : DmaTransfer(c)

\* the RGB state machine pulls a word: the TX FIFO has room again
SinkReady ==
    /\ rgb_sm \in sm_enabled
    /\ ~dreq
    /\ dreq' = TRUE
    /\ UNCHANGED <<geo, observe, dma, fault, log, passes, restarts>>
    /\ UNCHANGED appVars
    /\ UNCHANGED mainVars

\* ------------------------------------------------------------------------
\* The application: calls of draw_pixel

Colors == 0 .. 7
\* argument values: every coordinate of the buffer, one just above it, and
\* the int -3 as the call converts it
XArgs(g) == {ToUint32(n) : n \in (0 .. (g.res_x - 1)) \cup {g.res_x + 5, -3}}
YArgs(g) == {ToUint32(n) : n \in (0 .. (RES_Y(g) - 1)) \cup {RES_Y(g), -3}}

InRange(g, x, y) == x.hi = 0 /\ x.lo < g.res_x /\ y.hi = 0 /\ y.lo < RES_Y(g)

\* the pixel a call addresses: its unsigned coordinates brought into the buffer
AddressedPixel(g, x, y) ==
    LET cx == IF x.hi > 0 \/ x.lo >= g.res_x THEN g.res_x - 1 ELSE x.lo
        cy == IF y.hi > 0 \/ y.lo >= RES_Y(g) THEN RES_Y(g) - 1 ELSE y.lo
    IN  cy * g.res_x + cx

\* calls explored: MaxWrites of draw_pixel alone, one while the pipeline runs
Budget == IF pc = "api" THEN MaxWrites ELSE 1

DrawPixel(x, y, color) ==
    /\ pc \in {"app", "api"}
    /\ writes < Budget
    /\ s_framebuffer' = draw_pixel(geo, s_framebuffer, x, y, color)
    /\ writes' = writes + 1
    /\ written' = [written EXCEPT ![AddressedPixel(geo, x, y)] = Append(@, color)]
    /\ UNCHANGED <<geo, observe, loop>>
    /\ UNCHANGED mainVars
    /\ UNCHANGED hwVars

App == \E x \in XArgs(geo), y \in YArgs(geo), color \in Colors : DrawPixel(x, y, color)

\* ------------------------------------------------------------------------
\* The example of main (scart_rgb.c:247-278)

BLACK == 0
RED == 1
GREEN == 2
YELLOW == 3
BLUE == 4
MAGENTA == 5
CYAN == 6
WHITE == 7
\* static const char colors[8], indexed from 0
colors == [i \in 0 .. (NumColors - 1) |->
              <<BLACK, RED, GREEN, YELLOW, BLUE, MAGENTA, CYAN, WHITE>>[i + 1]]

\* index, xcounter, ycounter, x and y as declared at lines 250-257
InitialLoop == [index |-> 0, xcounter |-> 0, ycounter |-> 0, x |-> 0, y |-> 0]

\* the counter and index after the check of lines 261-265 or 269-273
CounterHit(g, counter) == counter = g.bar
\* the index advanced by two
BumpedTwice(g, counter, index) ==
    IF CounterHit(g, counter) THEN (index + 2) % NumColors ELSE index
Bumped(g, counter, index) ==
    IF CounterHit(g, counter) THEN (index + 1) % NumColors ELSE index
Counted(g, counter) == (IF CounterHit(g, counter) THEN 0 ELSE counter) + 1

ExampleUnchanged ==
    /\ UNCHANGED <<geo, observe, pio_space, programs, sm_init, sm_fifo_put, sm_enabled,
                   dma_unused, channel_0, channel_1, channel_2, control_blocks,
                   control_block_ptr>>
    /\ UNCHANGED hwVars

\* the head of the outer loop: the row starts (lines 258-267) or the loop is
\* left for while (true) (line 280)
ExampleRow ==
    /\ pc = "example_row"
    /\ loop.y < RES_Y(geo)
    /\ loop' = [loop EXCEPT !.index = Bumped(geo, loop.ycounter, @),
                            !.ycounter = Counted(geo, @),
                            !.x = 0]
    /\ pc' = "example_column"
    /\ UNCHANGED <<s_framebuffer, writes, written>>
    /\ ExampleUnchanged

ExampleDone ==
    /\ pc = "example_row"
    /\ ~(loop.y < RES_Y(geo))
    /\ pc' = "forever"
    /\ UNCHANGED appVars
    /\ ExampleUnchanged

\* one pass of the inner loop: a pixel is drawn (lines 267-276)
ExampleColumn ==
    /\ pc = "example_column"
    /\ loop.x < geo.res_x
    /\ LET index == Bumped(geo, loop.xcounter, loop.index)
           x == ToUint32(loop.x)
           y == ToUint32(loop.y)
       IN  /\ s_framebuffer' = draw_pixel(geo, s_framebuffer, x, y, colors[index])
           /\ written' = [written EXCEPT ![AddressedPixel(geo, x, y)] =
                                             Append(@, colors[index])]
           /\ loop' = [loop EXCEPT !.index = index,
                                   !.xcounter = Counted(geo, @),
                                   !.x = @ + 1]
    /\ writes' = writes + 1
    /\ pc' = pc
    /\ ExampleUnchanged

\* the inner loop is left: the next row (line 258, y++)
ExampleRowEnd ==
    /\ pc = "example_column"
    /\ ~(loop.x < geo.res_x)
    /\ loop' = [loop EXCEPT !.y = @ + 1]
    /\ pc' = "example_row"
    /\ UNCHANGED <<s_framebuffer, writes, written>>
    /\ ExampleUnchanged

Example == ExampleRow \/ ExampleDone \/ ExampleColumn \/ ExampleRowEnd

\* ------------------------------------------------------------------------
\* Specifications

InitStore(g) ==
    /\ geo = g
    /\ s_framebuffer = [i \in 0 .. (FRAMEBUFFER_SIZE(g) - 1) |-> 0]
    /\ writes = 0
    /\ written = [i \in 0 .. (g.res_x * RES_Y(g) - 1) |-> << >>]
    /\ loop = InitialLoop

InitMachine ==
    /\ pio_space \in 0 .. NumPrograms
    /\ programs = {}
    /\ sm_init = {}
    /\ sm_fifo_put = {}
    /\ sm_enabled = {}
    /\ dma_unused \in {k .. (MaxFreeChannels - 1) : k \in 0 .. MaxFreeChannels}
    /\ channel_0 = -1
    /\ channel_1 = -1
    /\ channel_2 = -1
    /\ control_blocks = [i \in 0 .. (NumBlocks - 1) |-> ZeroBlock]
    /\ control_block_ptr = NullAddr
    /\ dma = [c \in Channels |-> ResetChannel]
    /\ dreq = TRUE
    /\ fault = FALSE
    /\ log = << >>
    /\ passes = 0
    /\ restarts = 0

Init ==
    /\ InitStore(SmallGeometry)
    /\ InitMachine
    /\ pc = "add_csync"
    /\ observe = TRUE

Main ==
    \/ AddCsyncProgram
    \/ AddRgbProgram
    \/ ProgramInit
    \/ BuildControlBlocks
    \/ ClaimChannel0
    \/ ClaimChannel1
    \/ ClaimChannel2
    \/ ConfigureControlBlocks
    \/ ConfigureChannel1
    \/ ConfigureChannel2
    \/ PutCounters
    \/ EnableStateMachines
    \/ StartDma

Next == Main \/ App \/ Dma \/ SinkReady

Spec == Init /\ [][Next]_vars

\* draw_pixel alone, called with any arguments on the zeroed store
PixelInit ==
    /\ InitStore(SmallGeometry)
    /\ InitMachine
    /\ pio_space = 0
    /\ dma_unused = {}
    /\ pc = "api"
    /\ observe = TRUE

PixelSpec == PixelInit /\ [][App]_vars

\* the example alone, on the zeroed store
ExampleInit ==
    /\ InitStore(ExampleGeometry)
    /\ InitMachine
    /\ pio_space = 0
    /\ dma_unused = {}
    /\ pc = "example_row"
    /\ observe = TRUE

ExampleSpec == ExampleInit /\ [][Example]_vars

\* the pipeline left running without the observer's record; the DMA engine
\* moves an element whenever a channel can, the RGB state machine keeps
\* pulling its FIFO
LiveInit ==
    /\ InitStore(SmallGeometry)
    /\ InitMachine
    /\ pc = "add_csync"
    /\ observe = FALSE

LiveSpec ==
    /\ LiveInit
    /\ [][Next]_vars
    /\ \A c \in Channels : WF_vars(DmaTransfer(c))
    /\ WF_vars(SinkReady)

\* ------------------------------------------------------------------------
\* Vocabulary of the properties

Claimed(c) == c \in Channels
Busy(c) == Claimed(c) /\ dma[c].busy

\* elements of one pass through the chain
ChainTotal ==
    control_blocks[0].count + control_blocks[1].count + control_blocks[2].count

\* where an element came from: control block, object, offset
Tag(e) == <<e.blk, e.base, e.off>>

\* the element the chain issues at position j of a pass, j counted from 0
ExpectedTag(j) ==
    IF j < control_blocks[0].count
    THEN <<0, "s_border_color", 0>>
    ELSE IF j < control_blocks[0].count + control_blocks[1].count
         THEN <<1, "s_framebuffer", j - control_blocks[0].count>>
         ELSE <<2, "s_border_color", 0>>

\* DMA started (line 239 executed)
EngineStarted == pc = "app"
TimingRunning == csync_sm \in sm_enabled
SinkRunning == rgb_sm \in sm_enabled

\* every channel's configuration is in place (lines 164-221 executed)
AllConfigured ==
    /\ Claimed(channel_0) /\ Claimed(channel_1) /\ Claimed(channel_2)
    /\ control_blocks[0].ctrl = BorderCtrl(channel_0, channel_1)
    /\ control_blocks[1].ctrl = PixelCtrl(channel_0, channel_1)
    /\ control_blocks[2].ctrl = LastCtrl(channel_0, channel_1, channel_2)
    /\ dma[channel_1].ctrl = LoaderCtrl(channel_1)
    /\ dma[channel_1].write_addr.base = "al1"
    /\ dma[channel_1].write_addr.idx = channel_0
    /\ dma[channel_1].count = BlockWords
    /\ dma[channel_2].ctrl = RestartCtrl(channel_2)
    /\ dma[channel_2].write_addr = Al3ReadAddrTrig(channel_1)
    /\ dma[channel_2].read_addr = ControlBlockPtrAddr
    /\ control_block_ptr = ControlBlocksAddr

\* resources main found when it started
InitialProgramSpace == pio_space + Cardinality(programs)
InitialFreeChannels ==
    Cardinality(dma_unused) + Cardinality({c \in {channel_0, channel_1, channel_2} : c # -1})

\* the packed pixel fields of a byte
LowNibble(b) == b % 16
HighNibble(b) == b \div 16
LowField(b) == b % 8
HighField(b) == (b \div 8) % 8
NibbleAt(buf, idx) ==
    IF idx % 2 = 0 THEN LowNibble(buf[idx \div 2]) ELSE HighNibble(buf[idx \div 2])
FieldAt(buf, idx) ==
    IF idx % 2 = 0 THEN LowField(buf[idx \div 2]) ELSE HighField(buf[idx \div 2])

\* this step is a call of draw_pixel for the pixel at linear index idx
\* (idx = y*RES_X + x for in-range coordinates), with color DrawnColor(idx)
Drawn(idx) == Len(written'[idx]) = Len(written[idx]) + 1
DrawnColor(idx) == written'[idx][Len(written'[idx])]

Zeroed == \A i \in DOMAIN s_framebuffer : s_framebuffer[i] = 0

\* the OR of the colors of a sequence
RECURSIVE OrAll(_)
OrAll(cs) == IF cs = << >> THEN 0 ELSE BitOr(Head(cs), OrAll(Tail(cs)))

\* ------------------------------------------------------------------------
\* Properties

\* C1: the restart channel (channel 2) makes exactly one transfer per
\* completed pass through the three control blocks and none at any other
\* time: the restarts never exceed the completed passes, they lag by one
\* exactly while the restart channel is running, every restart leaves the
\* loader triggered with its read address at the first control block, and the
\* sink's stream repeats with period top + active + bottom count.
C1_RestartCounts ==
    /\ restarts <= passes
    /\ passes <= restarts + 1
    /\ (passes = restarts + 1) <=> Busy(channel_2)
    /\ \A k \in 1 .. Len(log) :
          k > ChainTotal => Tag(log[k]) = Tag(log[k - ChainTotal])

C1_RestartResetsCursor ==
    restarts' = restarts + 1 =>
        /\ dma'[channel_1].read_addr = ControlBlocksAddr
        /\ dma'[channel_1].busy
        /\ dma'[channel_1].remaining = BlockWords

C1_RestartOncePerPass == [](C1_RestartCounts) /\ [][C1_RestartResetsCursor]_vars

C1_Witness ==
    /\ restarts = 2
    /\ passes = 2
    /\ Len(log) = 2 * ChainTotal
    /\ Busy(channel_0)

\* C2: in every pass the sink receives the top border block, then the
\* active block, then the bottom border block, none skipped or repeated;
\* the active block's elements come from framebuffer offsets 0, 1, ... in
\* increasing order, every border element is read from the border color at a
\* source that does not advance, and carries the border value.
C2_FixedOrder ==
    \A k \in 1 .. Len(log) :
        /\ Tag(log[k]) = ExpectedTag((k - 1) % ChainTotal)
        /\ log[k].base = "s_border_color" => log[k].val = s_border_color

C2_Witness ==
    /\ Len(log) > ChainTotal
    /\ \E k \in 1 .. Len(log) : log[k].blk = 1 /\ log[k].val # 0 /\ log[k].off > 0
    /\ log[Len(log)].blk = 2

\* C4: the three counts add up to elements-per-line times total scan lines,
\* every restart happens after exactly that many further elements, and for
\* the program's geometry the counts are 6720, 38400, 3520, together 48640.
C4_ChainTotal ==
    /\ pc \notin {"add_csync", "add_rgb", "program_init", "control_blocks", "panic"} =>
          ChainTotal = LINE_COUNT(geo) * geo.scan_lines
    /\ Busy(channel_2) => Len(log) = (restarts + 1) * LINE_COUNT(geo) * geo.scan_lines
    /\ restarts * LINE_COUNT(geo) * geo.scan_lines <= Len(log)
    /\ Len(log) <= (restarts + 1) * LINE_COUNT(geo) * geo.scan_lines
    /\ InitialControlBlocks(ProgramGeometry)[0].count = 6720
    /\ InitialControlBlocks(ProgramGeometry)[1].count = 38400
    /\ InitialControlBlocks(ProgramGeometry)[2].count = 3520
    /\ LINE_COUNT(ProgramGeometry) * ProgramGeometry.scan_lines = 48640
    /\ 6720 + 38400 + 3520 = 48640

C4_Witness ==
    /\ Busy(channel_2)
    /\ restarts = 1
    /\ Len(log) = 2 * ChainTotal

\* C5: while channel 0 is running and the sink is not ready, no step changes
\* channel 0's registers or the sink's stream; and the stream always accounts
\* for exactly the elements channel 0 has counted down: none lost, none
\* duplicated, whatever the pattern of ready and not-ready intervals.
C5_StallKeepsState ==
    (Busy(channel_0) /\ ~dreq) => (dma'[channel_0] = dma[channel_0] /\ log' = log)

\* elements of the pass in progress that precede control block b
Before(b) ==
    IF b = 0 THEN 0
    ELSE IF b = 1 THEN control_blocks[0].count
    ELSE control_blocks[0].count + control_blocks[1].count

C5_Conservation ==
    Busy(channel_0) =>
        LET r == dma[channel_0]
        IN  /\ r.blk \in 0 .. (NumBlocks - 1)
            /\ Len(log) = passes * ChainTotal + Before(r.blk) + (r.count - r.remaining)
            /\ r.read_addr.off = IF r.ctrl.incr_read THEN r.count - r.remaining ELSE 0

C5_StallLosesNothing == [](C5_Conservation) /\ [][C5_StallKeepsState]_vars

C5_Witness ==
    /\ Busy(channel_0)
    /\ ~dreq
    /\ dma[channel_0].blk = 1
    /\ dma[channel_0].remaining < dma[channel_0].count
    /\ Len(log) > ChainTotal

\* C3: once the DMA is started, and with no further step of main or of the
\* application required, the sink always eventually receives another element
\* from each of the three control blocks: the chain is executed again and
\* again and never reaches a final state.
EmitFrom(i) ==
    \E c \in Channels :
        /\ c = channel_0
        /\ dma[c].blk = i
        /\ ToSink(dma[c].write_addr)
        /\ DmaTransfer(c)

C3_NeverStops ==
    \A i \in 0 .. (NumBlocks - 1) : (<>EngineStarted) => []<><<EmitFrom(i)>>_vars

\* a pass is complete and the restart has re-triggered the loader
C3_Witness ==
    /\ EngineStarted
    /\ Busy(channel_1)
    /\ dma[channel_1].read_addr = ControlBlocksAddr
    /\ dma[channel_0].blk = NumBlocks - 1

\* C6 as stated: the timing generator runs exactly when the transfer engine
\* has been started, and nothing is started before every channel is configured.
C6_Original ==
    /\ TimingRunning <=> EngineStarted
    /\ (TimingRunning \/ EngineStarted) => AllConfigured

\* C6 amended: every channel is configured before anything is started; the
\* two PIO state machines (csync and rgb) are enabled in one step; the DMA is
\* started by the next, separate step, and the state between the two steps is
\* the only one in which the timing generator runs and the DMA has not been
\* started.
C6_StartOrder ==
    /\ (TimingRunning \/ SinkRunning \/ EngineStarted) => AllConfigured
    /\ TimingRunning <=> SinkRunning
    /\ EngineStarted => TimingRunning
    /\ (TimingRunning /\ ~EngineStarted) => pc = "start_dma"
    /\ ~EngineStarted => (\A c \in Channels : ~dma[c].busy) /\ log = << >>

C6_Witness ==
    /\ pc = "start_dma"
    /\ TimingRunning
    /\ SinkRunning
    /\ ~EngineStarted
    /\ AllConfigured

\* C7: when main found fewer than two free program slots or fewer than three
\* free DMA channels, it never gets past the claims: no channel is ever
\* configured or running, no state machine is enabled, the DMA is never
\* started, the sink receives nothing, and main ends in the panic.
C7_ExhaustionIsFatal ==
    (InitialProgramSpace < NumPrograms \/ InitialFreeChannels < 3) =>
        /\ pc \in {"add_csync", "add_rgb", "program_init", "control_blocks",
                   "claim_0", "claim_1", "claim_2", "panic"}
        /\ \A c \in Channels : dma[c] = ResetChannel
        /\ sm_enabled = {}
        /\ ~EngineStarted
        /\ log = << >>
        /\ pc = "panic" \/ ENABLED Main

C7_Witness ==
    /\ pc = "panic"
    /\ Claimed(channel_0)
    /\ Claimed(channel_1)
    /\ ~Claimed(channel_2)
    /\ programs = {"csync", "rgb"}

\* C8 as stated: a call with in-range coordinates on the zeroed store leaves
\* the nibble at index y*RES_X+x (low nibble of byte idx>>1 for an even
\* index, high nibble for an odd one) equal to the color.
C8_OriginalStep ==
    \A idx \in DOMAIN written :
        (pc = "api" /\ Zeroed /\ Drawn(idx)) =>
            NibbleAt(s_framebuffer', idx) = DrawnColor(idx)

C8_Original == [][C8_OriginalStep]_vars

\* C8 amended: a call with in-range coordinates on the zeroed store leaves the
\* 3-bit field at index idx = y*RES_X+x equal to the color, the field being
\* bits 0-2 of byte idx>>1 for an even index and bits 3-5 for an odd one.
C8_FirstWriteStep ==
    \A idx \in DOMAIN written :
        (pc = "api" /\ Zeroed /\ Drawn(idx)) =>
            FieldAt(s_framebuffer', idx) = DrawnColor(idx)

C8_FirstWrite == [][C8_FirstWriteStep]_vars

\* the first call has drawn the last pixel of the buffer, an odd one, white
C8_Witness ==
    /\ pc = "api"
    /\ writes = 1
    /\ written[geo.res_x * RES_Y(geo) - 1] = <<7>>
    /\ s_framebuffer[FRAMEBUFFER_SIZE(geo) - 1] = 56

\* C9: writes merge and never replace: every call leaves the addressed pixel
\* holding its previous value OR-ed with the color, and after any sequence of
\* calls every pixel holds the bitwise OR of all the colors passed for it, so
\* a pixel written with c1 and then c2 holds c1 | c2.
C9_MergeStep ==
    \A idx \in DOMAIN written :
        (pc = "api" /\ Drawn(idx)) =>
            FieldAt(s_framebuffer', idx) = BitOr(FieldAt(s_framebuffer, idx), DrawnColor(idx))

C9_History ==
    pc = "api" =>
        \A idx \in DOMAIN written : FieldAt(s_framebuffer, idx) = OrAll(written[idx])

C9_Merge == [](C9_History) /\ [][C9_MergeStep]_vars

\* an odd pixel written with 5 and then 2 holds 7
C9_Witness ==
    /\ pc = "api"
    /\ \E idx \in DOMAIN written :
          /\ idx % 2 = 1
          /\ written[idx] = <<5, 2>>
          /\ FieldAt(s_framebuffer, idx) = 7
          /\ s_framebuffer[idx \div 2] = 56

\* C10 as stated: both nibbles (bits 0-3, bits 4-7) of every byte are in 0..7.
C10_Original ==
    \A i \in DOMAIN s_framebuffer :
        LowNibble(s_framebuffer[i]) \in 0 .. 7 /\ HighNibble(s_framebuffer[i]) \in 0 .. 7

\* C10 amended: both 3-bit fields (bits 0-2, bits 3-5) of every byte hold a
\* color in 0..7 and nothing else is stored: bits 6 and 7 of every byte stay
\* clear, so every byte is in 0..63.
C10_FieldsOnly ==
    \A i \in DOMAIN s_framebuffer :
        /\ s_framebuffer[i] \in 0 .. 63
        /\ s_framebuffer[i] = LowField(s_framebuffer[i]) + 8 * HighField(s_framebuffer[i])

C10_Witness ==
    /\ pc = "api"
    /\ \E i \in DOMAIN s_framebuffer : s_framebuffer[i] = 63


\* the values pixel idx has held: the OR of each prefix of the colors drawn
PixelHistory(idx) ==
    {OrAll(SubSeq(written[idx], 1, n)) : n \in 0 .. Len(written[idx])}

\* C11: while draw_pixel is called at arbitrary times and channel 0 reads
\* the frame buffer without locking, every byte delivered to the sink holds
\* two colors in 0..7 and nothing else, each of them a value its pixel held
\* before or after a call (never another bit pattern); a bit delivered set
\* at an offset is set in every later delivery of that offset; each delivery
\* is the byte as stored at that moment, and no step clears a stored bit.
C11_Delivered ==
    \A k \in 1 .. Len(log) :
        log[k].base = "s_framebuffer" =>
            /\ log[k].val \in 0 .. 63
            /\ LowField(log[k].val) \in PixelHistory(2 * log[k].off)
            /\ HighField(log[k].val) \in PixelHistory(2 * log[k].off + 1)
            /\ \A j \in 1 .. (k - 1) :
                  (log[j].base = "s_framebuffer" /\ log[j].off = log[k].off) =>
                      BitOr(log[j].val, log[k].val) = log[k].val

C11_ReadStep ==
    /\ Len(log') = Len(log) + 1 =>
          LET e == log'[Len(log')]
          IN  e.base = "s_framebuffer" => e.val = s_framebuffer[e.off]
    /\ \A i \in DOMAIN s_framebuffer :
          BitOr(s_framebuffer[i], s_framebuffer'[i]) = s_framebuffer'[i]

k_max_x(g) == ToUint32(g.res_x - 1)
k_max_y(g) == ToUint32(RES_Y(g) - 1)

\* argument values above the range; the converted int -3 is one of them
HighX(g) == {x \in XArgs(g) : U32Gt(x, g.res_x - 1)}
HighY(g) == {y \in YArgs(g) : U32Gt(y, RES_Y(g) - 1)}

\* the store is one a further call of draw_pixel is explored on
CallExplored == pc = "api" /\ writes < Budget

\* C12: for every color, a call with x above RES_X-1 leaves the store
\* exactly as the call with x = RES_X-1 and the same y does, and a call with
\* y above RES_Y-1 leaves it exactly as the call with y = RES_Y-1 and the same
\* x does; and every call made leaves the store as the call with its
\* coordinates brought down to RES_X-1 and RES_Y-1 does.
C12_SameStore ==
    CallExplored =>
        /\ \A y \in YArgs(geo), c \in Colors :
              LET clamped == draw_pixel(geo, s_framebuffer, k_max_x(geo), y, c)
              IN  \A x \in HighX(geo) : draw_pixel(geo, s_framebuffer, x, y, c) = clamped
        /\ \A x \in XArgs(geo), c \in Colors :
              LET clamped == draw_pixel(geo, s_framebuffer, x, k_max_y(geo), c)
              IN  \A y \in HighY(geo) : draw_pixel(geo, s_framebuffer, x, y, c) = clamped

C12_ClampStep ==
    \A idx \in DOMAIN written :
        (pc = "api" /\ Drawn(idx)) =>
            s_framebuffer' = draw_pixel(geo, s_framebuffer, ToUint32(idx % geo.res_x),
                                        ToUint32(idx \div geo.res_x), DrawnColor(idx))

C12_UpperClamp == [](C12_SameStore) /\ [][C12_ClampStep]_vars

\* the store a first call draw_pixel(RES_X+5, RES_Y, 7) leaves: the last
\* pixel of the buffer white, and a further clamped call would change it
C12_Witness ==
    /\ pc = "api"
    /\ writes = 1
    /\ ToUint32(geo.res_x + 5) \in HighX(geo)
    /\ ToUint32(RES_Y(geo)) \in HighY(geo)
    /\ s_framebuffer = draw_pixel(geo, [i \in DOMAIN s_framebuffer |-> 0],
                                  ToUint32(geo.res_x + 5), ToUint32(RES_Y(geo)), 7)
    /\ written[geo.res_x * RES_Y(geo) - 1] = <<7>>
    /\ s_framebuffer[FRAMEBUFFER_SIZE(geo) - 1] = 56


\* in-range argument values
InX(g) == XArgs(g) \ HighX(g)
InY(g) == YArgs(g) \ HighY(g)

\* C13 as stated: for every color, the call with x = -3 (converted to
\* uint32_t as the call does) leaves the store exactly as the call with
\* x = 0 and the same in-range y does, and the call with y = -3 leaves it
\* exactly as the call with y = 0 and the same in-range x does.
C13_NegativeClampsToZero ==
    CallExplored =>
        /\ \A y \in InY(geo), c \in Colors :
              draw_pixel(geo, s_framebuffer, ToUint32(-3), y, c)
                  = draw_pixel(geo, s_framebuffer, ToUint32(0), y, c)
        /\ \A x \in InX(geo), c \in Colors :
              draw_pixel(geo, s_framebuffer, x, ToUint32(-3), c)
                  = draw_pixel(geo, s_framebuffer, x, ToUint32(0), c)


\* C14: draw_pixel is idempotent on the whole store: for every x, y and
\* color, on every store, the call applied to the store it has just left
\* changes nothing; and a call that repeats a color already drawn on its
\* pixel leaves every byte of the store as it was.
C14_TwiceIsOnce ==
    CallExplored =>
        \A x \in XArgs(geo), y \in YArgs(geo), c \in Colors :
            LET once == draw_pixel(geo, s_framebuffer, x, y, c)
            IN  draw_pixel(geo, once, x, y, c) = once

C14_RepeatStep ==
    \A idx \in DOMAIN written :
        (pc = "api" /\ Drawn(idx)
            /\ \E k \in 1 .. Len(written[idx]) : written[idx][k] = DrawnColor(idx)) =>
            s_framebuffer' = s_framebuffer

C14_Idempotent == [](C14_TwiceIsOnce) /\ [][C14_RepeatStep]_vars

\* the same call made twice: an odd pixel drawn with 5 and with 5 again
C14_Witness ==
    /\ pc = "api"
    /\ writes = 2
    /\ \E idx \in DOMAIN written :
          /\ idx % 2 = 1
          /\ written[idx] = <<5, 5>>
          /\ s_framebuffer = [i \in DOMAIN s_framebuffer |-> IF i = idx \div 2 THEN 40 ELSE 0]


\* the pixel of column x of row y, as stored
PixelAt(x, y) == FieldAt(s_framebuffer, y * geo.res_x + x)
Rows == 0 .. (RES_Y(geo) - 1)
Columns == 0 .. (geo.res_x - 1)
Bars == 0 .. ((geo.res_x \div geo.bar) - 1)
ExampleFinished == pc = "forever"

\* every row holds exactly NumColors complete bars: the pixels of a bar are
\* equal and neighbouring bars differ
CompleteBars ==
    /\ geo.res_x = NumColors * geo.bar
    /\ \A y \in Rows, k \in Bars :
          /\ \A x \in (k * geo.bar) .. ((k + 1) * geo.bar - 1) :
                PixelAt(x, y) = PixelAt(k * geo.bar, y)
          /\ k > 0 => PixelAt(k * geo.bar, y) # PixelAt((k - 1) * geo.bar, y)

\* C15 as stated: the example leaves in every row exactly 8 complete bars
\* of equal pixels, and every row equal to row 0.
C15_Original ==
    ExampleFinished =>
        /\ CompleteBars
        /\ \A y \in Rows, x \in Columns : PixelAt(x, y) = PixelAt(x, 0)

\* C15 amended: the example leaves in every row exactly 8 complete bars of
\* equal pixels, bar k of row y holding colors[(k + y div bar) mod 8]: the
\* rows of one band of bar-many rows are equal, the first band equals row 0,
\* and each further band is shifted by one color (a diagonal pattern); while
\* the example runs, every pixel drawn so far holds that color and was drawn
\* once, and every other pixel is still 0.
ExampleColor(x, y) == colors[((x \div geo.bar) + (y \div geo.bar)) % NumColors]

C15_Drawn ==
    pc \in {"example_row", "example_column", "forever"} =>
        \A y \in Rows, x \in Columns :
            LET idx == y * geo.res_x + x
                done == y < loop.y \/ (y = loop.y /\ pc = "example_column" /\ x < loop.x)
            IN  /\ written[idx] = IF done THEN <<ExampleColor(x, y)>> ELSE << >>
                /\ PixelAt(x, y) = IF done THEN ExampleColor(x, y) ELSE 0

C15_Diagonal ==
    /\ C15_Drawn
    /\ ProgramGeometry.res_x = NumColors * ProgramGeometry.bar
    /\ RES_Y(ProgramGeometry) = 6 * ProgramGeometry.bar
    /\ pc \in {"example_row", "example_column", "forever"} =>
          geo.res_x = NumColors * geo.bar /\ RES_Y(geo) = 6 * geo.bar
    /\ ExampleFinished =>
          /\ loop.y = RES_Y(geo)
          /\ CompleteBars
          /\ \A y \in Rows, x \in Columns :
                /\ PixelAt(x, y) = PixelAt(x, (y \div geo.bar) * geo.bar)
                /\ y < geo.bar => PixelAt(x, y) = PixelAt(x, 0)
                /\ y >= geo.bar => PixelAt(x, y) # PixelAt(x, y - geo.bar)

\* the example has finished; the first row of the second band starts with RED
C15_Witness ==
    /\ ExampleFinished
    /\ writes = geo.res_x * RES_Y(geo)
    /\ PixelAt(0, 0) = BLACK
    /\ PixelAt(geo.res_x - 1, 0) = WHITE
    /\ PixelAt(0, geo.bar) = RED
    /\ PixelAt(geo.res_x - 1, geo.bar) = BLACK


\* the control blocks as main leaves them (lines 154-184)
ChainAtStart ==
    [InitialControlBlocks(geo) EXCEPT
        ![0].ctrl = BorderCtrl(channel_0, channel_1),
        ![1].ctrl = PixelCtrl(channel_0, channel_1),
        ![2].ctrl = LastCtrl(channel_0, channel_1, channel_2)]

\* addresses of registers, as opposed to the program's objects in memory
RegisterBases == {"txf", "al1", "al3_read_addr_trig"}

\* C16: from the start of the DMA on, the three control blocks (ctrl,
\* read_addr, write_addr, count) and the pointer to them hold the values main
\* gave them, the border color delivered is s_border_color, and no channel
\* ever has a write address in the program's memory: transfers write to
\* registers only. No step of draw_pixel or of a channel changes a control
\* block; a step of a channel leaves the configuration of the loader (ctrl,
\* count) and of the restart channel (ctrl, count, read and write address) as
\* configured, and changes only channel registers and the loader's addresses.
C16_ChainKept ==
    EngineStarted =>
        /\ control_blocks = ChainAtStart
        /\ control_block_ptr = ControlBlocksAddr
        /\ \A c \in Channels : Busy(c) => dma[c].write_addr.base \in RegisterBases
        /\ \A k \in 1 .. Len(log) :
              log[k].base = "s_border_color" => log[k].val = s_border_color
        /\ dma[channel_1].ctrl = LoaderCtrl(channel_1)
        /\ dma[channel_1].count = BlockWords
        /\ dma[channel_1].write_addr.base = "al1"
        /\ dma[channel_1].write_addr.idx = channel_0
        /\ ~Busy(channel_1) => dma[channel_1].write_addr = Al1CtrlAddr(channel_0)
        /\ dma[channel_2].ctrl = RestartCtrl(channel_2)
        /\ dma[channel_2].count = 1
        /\ dma[channel_2].read_addr = ControlBlockPtrAddr
        /\ dma[channel_2].write_addr = Al3ReadAddrTrig(channel_1)

C16_ChainStep ==
    EngineStarted =>
        /\ control_blocks' = control_blocks
        /\ control_block_ptr' = control_block_ptr
        /\ s_framebuffer' # s_framebuffer => dma' = dma
        /\ dma' # dma => <<s_framebuffer', pc', sm_enabled', channel_0', channel_1',
                           channel_2'>>
                          = <<s_framebuffer, pc, sm_enabled, channel_0, channel_1, channel_2>>

C16_ChainImmutable == [](C16_ChainKept) /\ [][C16_ChainStep]_vars

\* a pass and a restart later, after a call of draw_pixel, with channel 0
\* in the middle of the frame buffer block
C16_Witness ==
    /\ EngineStarted
    /\ restarts >= 1
    /\ writes = 1
    /\ ~Zeroed
    /\ Busy(channel_0)
    /\ dma[channel_0].blk = 1
    /\ dma[channel_0].remaining < dma[channel_0].count
    /\ control_blocks = ChainAtStart


\* the pixel that shares its byte with pixel idx
Neighbour(idx) == IF idx % 2 = 0 THEN idx + 1 ELSE idx - 1

OtherBytesKept(idx) ==
    \A i \in DOMAIN s_framebuffer : i # idx \div 2 => s_framebuffer'[i] = s_framebuffer[i]

\* C17 as stated: a call changes no byte other than byte idx>>1 of its
\* pixel idx, and in that byte the nibble of the neighbouring pixel keeps its
\* value.
C17_OriginalStep ==
    \A idx \in DOMAIN written :
        (pc = "api" /\ Drawn(idx)) =>
            /\ OtherBytesKept(idx)
            /\ NibbleAt(s_framebuffer', Neighbour(idx)) = NibbleAt(s_framebuffer, Neighbour(idx))

C17_Original == [][C17_OriginalStep]_vars

\* C17 amended: a call changes no byte other than byte idx>>1 of its pixel
\* idx; in that byte the 3-bit field of the neighbouring pixel (bits 0-2 for
\* an even pixel, bits 3-5 for an odd one) and bits 6-7 keep their value, so
\* every pixel other than idx reads as before.
C17_FrameStep ==
    \A idx \in DOMAIN written :
        (pc = "api" /\ Drawn(idx)) =>
            /\ OtherBytesKept(idx)
            /\ FieldAt(s_framebuffer', Neighbour(idx)) = FieldAt(s_framebuffer, Neighbour(idx))
            /\ s_framebuffer'[idx \div 2] \div 64 = s_framebuffer[idx \div 2] \div 64
            /\ \A j \in DOMAIN written :
                  j # idx => FieldAt(s_framebuffer', j) = FieldAt(s_framebuffer, j)

C17_Frame == [][C17_FrameStep]_vars

\* an odd pixel drawn next to an even pixel that holds 5: the byte goes from
\* 5 to 61
C17_Witness ==
    /\ pc = "api"
    /\ writes = 2
    /\ \E idx \in DOMAIN written :
          /\ idx % 2 = 1
          /\ written[idx] = <<7>>
          /\ written[Neighbour(idx)] = <<5>>
          /\ s_framebuffer[idx \div 2] = 61


\* the loader's read address, in words from the first control block
Cursor == dma[channel_1].read_addr.off
\* words of the current control block the loader has copied
Copied == BlockWords - dma[channel_1].remaining
BlockStarts == {b * BlockWords : b \in 0 .. (NumBlocks - 1)}

\* C18: from the start of the DMA on, the loader reads the control blocks
\* only: while it runs, it is inside one of the three control blocks, having
\* copied the words before its cursor, in order, to the alias-1 registers of
\* channel 0; no transfer leaves the object it reads or writes; the cursor
\* stands behind the third control block only while the loader is idle and
\* channel 0 runs the third block or the restart channel runs. Every trigger
\* of the loader finds the cursor at the start of control block 0, 1 or 2
\* (at block 0 when it stood behind the third), and when the loader completes
\* channel 0 holds exactly the four words of that control block and runs.
C18_InsideChain ==
    EngineStarted =>
        /\ ~fault
        /\ dma[channel_1].read_addr.base = "control_blocks"
        /\ Busy(channel_1) =>
              /\ (Cursor - Copied) \in BlockStarts
              /\ Copied \in 0 .. (BlockWords - 1)
              /\ dma[channel_1].write_addr = [Al1CtrlAddr(channel_0) EXCEPT !.off = Copied]
              /\ ~Busy(channel_0)
        /\ ~Busy(channel_1) =>
              /\ Cursor \in {b + BlockWords : b \in BlockStarts}
              /\ Cursor = NumBlocks * BlockWords =>
                    \/ Busy(channel_0) /\ dma[channel_0].blk = NumBlocks - 1
                    \/ Busy(channel_2)

C18_LoaderStep ==
    EngineStarted =>
        /\ (~Busy(channel_1) /\ dma'[channel_1].busy) =>
              /\ dma'[channel_1].read_addr.off \in BlockStarts
              /\ dma'[channel_1].remaining = BlockWords
              /\ Cursor = NumBlocks * BlockWords => dma'[channel_1].read_addr.off = 0
        /\ (Busy(channel_1) /\ ~dma'[channel_1].busy) =>
              LET b == control_blocks[(Cursor - Copied) \div BlockWords]
              IN  /\ dma'[channel_0].ctrl = b.ctrl
                  /\ dma'[channel_0].read_addr = b.read_addr
                  /\ dma'[channel_0].write_addr = b.write_addr
                  /\ dma'[channel_0].count = b.count
                  /\ dma'[channel_0].remaining = b.count
                  /\ dma'[channel_0].busy
                  /\ dma'[channel_0].blk = (Cursor - Copied) \div BlockWords

C18_LoaderInChain == [](C18_InsideChain) /\ [][C18_LoaderStep]_vars

\* the restart channel has put the cursor back and the loader is copying
\* the first control block for the second time
C18_Witness ==
    /\ EngineStarted
    /\ restarts = 1
    /\ Busy(channel_1)
    /\ Cursor = 2
    /\ Copied = 2
    /\ ~fault


\* the channels that are running
Active == {c \in Channels : dma[c].busy}

\* C19: at most one DMA channel runs at any time; a channel starts running
\* only in the step in which the one channel that ran stops (channel 0 by the
\* loader's last word, the loader by the completion of channel 0 on control
\* blocks 0 and 1 or by the restart channel's transfer, the restart channel by
\* the completion of channel 0 on control block 2), or, for the loader, by
\* main's start of the DMA while no channel runs.
C19_AtMostOne ==
    /\ Cardinality(Active) <= 1
    /\ Active \subseteq {channel_0, channel_1, channel_2}
    /\ Active # {} => EngineStarted

C19_HandOver ==
    \A c \in Channels :
        (~dma[c].busy /\ dma'[c].busy) =>
            \/ /\ pc = "start_dma"
               /\ pc' = "app"
               /\ c = channel_1
               /\ Active = {}
            \/ \E p \in Channels :
                  /\ Active = {p}
                  /\ ~dma'[p].busy
                  /\ dma[p].remaining = 1
                  /\ \/ p = channel_1 /\ c = channel_0
                     \/ p = channel_0 /\ c = channel_1 /\ dma[p].blk < NumBlocks - 1
                     \/ p = channel_0 /\ c = channel_2 /\ dma[p].blk = NumBlocks - 1
                     \/ p = channel_2 /\ c = channel_1

C19_OneChannel == [](C19_AtMostOne) /\ [][C19_HandOver]_vars

\* the restart channel runs alone after a complete pass
C19_Witness ==
    /\ EngineStarted
    /\ Active = {channel_2}
    /\ passes = 1
    /\ restarts = 0


\* uint32_t values at the edges of the coordinate range and of the type
EdgeArgs(k_max) ==
    {U32(0, 0), U32(0, 1), U32(0, k_max), U32(0, k_max + 1), U32(0, HALF - 1),
     U32(1, 0), U32((HALF \div 2) - 1, HALF - 1), U32(HALF \div 2, 0),
     U32(HALF - 1, HALF - 3), U32(HALF - 1, HALF - 1)}

\* RES_X * y + x computed on the range-checked coordinates stays below 2^31:
\* neither the uint32_t expression nor its conversion to int wraps
IndexFits(g, x, y) ==
    LET cx == ClampX(g, x)
        cy == ClampY(g, y)
        low == g.res_x * cy.lo + cx.lo
        high == g.res_x * cy.hi + cx.hi + (low \div HALF)
    IN  high < HALF \div 2

\* the byte draw_pixel(x, y, _) accesses is inside the frame buffer
TouchesInside(g, x, y) ==
    /\ IndexFits(g, x, y)
    /\ PixelIndex(g, x, y) \in 0 .. (g.res_x * RES_Y(g) - 1)
    /\ (PixelIndex(g, x, y) \div 2) \in 0 .. (FRAMEBUFFER_SIZE(g) - 1)

\* C20: whatever uint32_t arguments draw_pixel is called with, the index
\* RES_X*y + x is computed without overflow and the byte accessed is inside
\* s_framebuffer, on the geometry explored and on the program's (320 x 240,
\* 38400 bytes); and while channel 0 runs the frame buffer block its read
\* address is inside s_framebuffer, the element at offset k being read after
\* exactly k elements of the block, and no transfer leaves its object.
C20_Writes ==
    (pc \in {"app", "api"} /\ writes < Budget) =>
        /\ \A x \in XArgs(geo) \cup EdgeArgs(geo.res_x - 1),
              y \in YArgs(geo) \cup EdgeArgs(RES_Y(geo) - 1) :
              /\ TouchesInside(geo, x, y)
              /\ (PixelIndex(geo, x, y) \div 2) \in DOMAIN s_framebuffer
        /\ \A x \in EdgeArgs(RES_X - 1), y \in EdgeArgs(RES_Y(ProgramGeometry) - 1) :
              TouchesInside(ProgramGeometry, x, y)
        /\ FRAMEBUFFER_SIZE(ProgramGeometry) = 38400
        /\ DOMAIN s_framebuffer = 0 .. (FRAMEBUFFER_SIZE(geo) - 1)

C20_Reads ==
    /\ ~fault
    /\ (Busy(channel_0) /\ dma[channel_0].blk = 1) =>
          /\ dma[channel_0].read_addr.base = "s_framebuffer"
          /\ dma[channel_0].read_addr.off \in DOMAIN s_framebuffer
          /\ dma[channel_0].read_addr.off = dma[channel_0].count - dma[channel_0].remaining
          /\ dma[channel_0].count = FRAMEBUFFER_SIZE(geo)
    /\ \A k \in 1 .. Len(log) :
          log[k].base = "s_framebuffer" => log[k].off \in DOMAIN s_framebuffer

C20_InBounds == C20_Writes /\ C20_Reads

\* channel 0 is about to read the last byte of the frame buffer, which a
\* call with both coordinates far above the range has written
C20_Witness ==
    /\ EngineStarted
    /\ writes = 1
    /\ written[geo.res_x * RES_Y(geo) - 1] # << >>
    /\ s_framebuffer[FRAMEBUFFER_SIZE(geo) - 1] # 0
    /\ Busy(channel_0)
    /\ dma[channel_0].blk = 1
    /\ dma[channel_0].read_addr.off = FRAMEBUFFER_SIZE(geo) - 1

====
